---- MODULE Spec2Model ----
(***************************************************************************)
(* Model of phase1/tokenizer_service.py: the module-level tokenizer cache  *)
(* (_tokenizer, _tok_src, _tok_local_only, _tok_md5), get_tokenizer with   *)
(* its load / fallback / fingerprint / publish sequence, and the info and  *)
(* tokenize_bulk handlers that FastAPI runs on worker threads.             *)
(*                                                                         *)
(* Every read or write of a module global is a step of its own, since the  *)
(* interpreter may switch threads between any two of them.                 *)
(***************************************************************************)
EXTENDS Integers, Sequences, FiniteSets, TLC

\* ------------------------------------------------------------------ bounds
NumThreads == 2        \* worker threads serving requests
MaxCalls == 2          \* requests accepted in one run
MaxEnvChanges == 1     \* changes of the environment / filesystem / network in one run
MaxBatch == 2          \* largest len(prompts), len(responses) of a request
MaxRowLen == 2         \* most tokens a (prompt, response) pair encodes to

Threads == 1..NumThreads
SeqThreads == {1}

\* --------------------------------------------------------------- constants
None == "<None>"
DEFAULT_REPO == "Qwen/Qwen2.5-3B-Instruct"
DefaultLocalDir == "assets/qwen-tokenizer"
AltLocalDir == "alt/tokenizer"
Dirs == {DefaultLocalDir, AltLocalDir}

\* Repository names a caller may pass as the override (besides None).
RepoFork == "org/qwen-fork"     \* same backend state as DEFAULT_REPO
RepoOther == "org/other"        \* different backend state
RepoSlow == "org/slow"          \* loads as a slow tokenizer: no backend_tokenizer
Repos == {DEFAULT_REPO, RepoFork, RepoOther, RepoSlow}
Overrides == {None, RepoFork, RepoOther, RepoSlow}

\* State of a directory: absent, present without tokenizer.json, tokenizer.json
\* present but not loadable, tokenizer.json present and loadable.
FsStates == {"nodir", "empty", "corrupt", "good"}

\* Values of an environment variable: unset, or a string.
Unset == "<unset>"
EnvDirValues == {Unset, AltLocalDir}
EnvLocalOnlyValues == {Unset, "1"}

\* os.environ.get(name, default)
EnvGet(e, name, default) == IF e[name] = Unset THEN default ELSE e[name]

\* A python value used as a condition: None and "" are false.
Truthy(s) == s # None /\ s # ""

\* ------------------------------------------------------------------- state
VARIABLES
    environ,         \* os.environ: LOCAL_TOKENIZER_DIR, LOCAL_ONLY
    LOCAL_DIR,       \* module constant, set at import
    LOCAL_ONLY,      \* module constant, set at import
    fs,              \* state of each directory
    net,             \* the hub is reachable
    hfCache,         \* repositories present in the library's local cache
    _tokenizer,      \* the cached tokenizer object, NoTokenizer for None
    _tok_src,        \* the source it is filed under
    _tok_local_only, \* the local_only flag it is filed under
    _tok_md5,        \* its backend fingerprint, None when absent
    pc,              \* position of each thread
    req,             \* the request a thread serves
    source,          \* local 'source' of get_tokenizer
    local_only,      \* local 'local_only' of get_tokenizer
    tok,             \* local 'tok' of get_tokenizer
    ret,             \* the tuple get_tokenizer returns, as it is built
    attempts,        \* the _load_tokenizer calls of this call: <<source, local_only, succeeded>>
    wrote,           \* the cache fields this get_tokenizer call assigned
    out,             \* how the request ended
    body,            \* the response body of a request that succeeded
    invoked,         \* the tokenizer invocations of this request: "ok" or "raised"
    last,            \* the previous request that finished
    nextId,          \* identity of the next tokenizer object
    calls,           \* requests accepted so far
    envChanges       \* environment changes so far

cacheVars == <<_tokenizer, _tok_src, _tok_local_only, _tok_md5>>
envVars == <<environ, fs, net, hfCache, envChanges>>
constVars == <<LOCAL_DIR, LOCAL_ONLY>>
localVars == <<pc, req, source, local_only, tok, ret, attempts, wrote, out, body, invoked>>
vars == <<environ, LOCAL_DIR, LOCAL_ONLY, fs, net, hfCache,
          _tokenizer, _tok_src, _tok_local_only, _tok_md5,
          pc, req, source, local_only, tok, ret, attempts, wrote, out, body, invoked,
          last, nextId, calls, envChanges>>

\* ------------------------------------------------------- tokenizer objects
\* A tokenizer object: its identity, what it was loaded with, whether it is a
\* fast tokenizer (has backend_tokenizer) and its serialized backend state.
NoTokenizer == [id |-> 0, src |-> None, lo |-> FALSE, fast |-> FALSE, bk |-> None]

\* The serialized backend state stored at a source. The local directory holds
\* what download_tokenizer.py saved: the tokenizer of DEFAULT_REPO.
BackendOf(s) ==
    CASE s = RepoOther -> "bk:other"
      [] s = RepoSlow -> "bk:slow"
      [] OTHER -> "bk:qwen"

IsFast(s) == s # RepoSlow

\* hashlib.md5(x).hexdigest(): a digest, one per input.
Md5Hex(x) == "md5(" \o x \o ")"

\* _backend_md5(tok): defined for a fast tokenizer only; tok.backend_tokenizer
\* raises for a slow one.
_backend_md5_raises(t) == ~t.fast
_backend_md5_of_source(t) == Md5Hex(t.bk \o "@" \o t.src)
_backend_md5(t) == Md5Hex(t.bk)

\* AutoTokenizer.from_pretrained(source, local_files_only=local_only) succeeds:
\* a directory must hold a loadable tokenizer; a repository must be in the
\* local cache, or reachable when local_files_only is not set.
_load_tokenizer_ok(s, lo) ==
    IF s \in Dirs THEN fs[s] = "good"
    ELSE /\ s \in Repos
         /\ \/ s \in hfCache
            \/ ~lo /\ net

\* The load reaches the network.
LoadUsesNetwork(s, lo) == s \in Repos /\ s \notin hfCache /\ ~lo /\ net

NewTokenizer(s, lo) ==
    [id |-> nextId, src |-> s, lo |-> lo, fast |-> IsFast(s), bk |-> BackendOf(s)]

\* ------------------------------------------------------ source resolution
PathExistsTokJson(d) == d \in Dirs /\ fs[d] \in {"corrupt", "good"}
PathIsDir(d) == d \in Dirs /\ fs[d] # "nodir"

\* get_tokenizer, "choose source": the pair (source, local_only).
ResolveOverrideFirst(dir, force, repo) ==
    IF PathExistsTokJson(dir) /\ ~Truthy(repo)
    THEN [source |-> dir, local_only |-> (force \/ PathIsDir(dir))]
    ELSE [source |-> (IF Truthy(repo) THEN repo ELSE DEFAULT_REPO),
          local_only |-> force]
ResolveWith(dir, force, repo) ==
    IF PathExistsTokJson(dir)
    THEN [source |-> dir, local_only |-> (force \/ PathIsDir(dir))]
    ELSE [source |-> (IF Truthy(repo) THEN repo ELSE DEFAULT_REPO),
          local_only |-> force]

\* What the environment variables would give if they were read now.
EnvironDir == EnvGet(environ, "LOCAL_TOKENIZER_DIR", DefaultLocalDir)
EnvironLocalOnly == EnvGet(environ, "LOCAL_ONLY", "0") = "1"

ResolveFromEnviron(repo) == ResolveWith(EnvironDir, EnvironLocalOnly, repo)
Resolve(repo) == ResolveWith(LOCAL_DIR, LOCAL_ONLY, repo)

\* The guard of the fallback in the except branch.
FallbackWhenForced(src, lo, repo) ==
    (src = LOCAL_DIR \/ lo) /\ LOCAL_ONLY /\ Truthy(repo)
FallbackIgnoresForce(src, lo, repo) ==
    (src = LOCAL_DIR \/ lo) /\ Truthy(repo)
FallbackWithoutOverride(src, lo, repo) ==
    (src = LOCAL_DIR \/ lo) /\ ~LOCAL_ONLY
FallbackAllowed(src, lo, repo) ==
    (src = LOCAL_DIR \/ lo) /\ ~LOCAL_ONLY /\ Truthy(repo)

\* ---------------------------------------------------------------- outcomes
\* How a request ended: the HTTP status, the kind of exception that left the
\* handler ("HTTPException" raised by the code, "unhandled" for any other
\* exception that escapes it), the stage that failed, the source the message
\* names and whether the message carries the underlying cause.
NoOut == [status |-> 0, kind |-> "none", stage |-> "none", src |-> None, cause |-> FALSE]
OkOut == [status |-> 200, kind |-> "ok", stage |-> "ok", src |-> None, cause |-> FALSE]
HttpError(code, stage, src, cause) ==
    [status |-> code, kind |-> "HTTPException", stage |-> stage, src |-> src, cause |-> cause]
Unhandled(stage) ==
    [status |-> 500, kind |-> "unhandled", stage |-> stage, src |-> None, cause |-> FALSE]

\* The response body: the rows of tokenize_bulk, the local file digest of info.
NoBody == [input_ids |-> <<>>, attention_mask |-> <<>>, local_tokenizer_json_md5 |-> None,
           ioerror |-> FALSE]

NoRet == [tok |-> NoTokenizer, src |-> None, lo |-> FALSE, md5 |-> None]
NoReq == [kind |-> "none", repo |-> None, np |-> 0, nr |-> 0, epoch |-> 0]
\* What is remembered of the request that finished last: its override, when it
\* began, how it ended, the tuple get_tokenizer returned and the loads it made.
NoLast == [repo |-> None, epoch |-> 0, out |-> NoOut, ret |-> NoRet, attempts |-> <<>>]

\* -------------------------------------------------------------------- Init
\* The module has been imported: LOCAL_DIR and LOCAL_ONLY were read from the
\* environment, the cache slot is empty, no request is being served. The
\* process starts with LOCAL_TOKENIZER_DIR unset, only the configured
\* directory may exist, and the library's cache is empty.
Init ==
    /\ environ \in [LOCAL_TOKENIZER_DIR : {Unset}, LOCAL_ONLY : EnvLocalOnlyValues]
    /\ LOCAL_DIR = EnvGet(environ, "LOCAL_TOKENIZER_DIR", DefaultLocalDir)
    /\ LOCAL_ONLY = (EnvGet(environ, "LOCAL_ONLY", "0") = "1")
    /\ \E s \in FsStates : fs = [d \in Dirs |-> IF d = LOCAL_DIR THEN s ELSE "nodir"]
    /\ net \in BOOLEAN
    /\ hfCache = {}
    /\ _tokenizer = NoTokenizer
    /\ _tok_src = None
    /\ _tok_local_only = FALSE
    /\ _tok_md5 = None
    /\ pc = [t \in Threads |-> "idle"]
    /\ req = [t \in Threads |-> NoReq]
    /\ source = [t \in Threads |-> None]
    /\ local_only = [t \in Threads |-> FALSE]
    /\ tok = [t \in Threads |-> NoTokenizer]
    /\ ret = [t \in Threads |-> NoRet]
    /\ attempts = [t \in Threads |-> <<>>]
    /\ wrote = [t \in Threads |-> {}]
    /\ out = [t \in Threads |-> NoOut]
    /\ body = [t \in Threads |-> NoBody]
    /\ invoked = [t \in Threads |-> <<>>]
    /\ last = NoLast
    /\ nextId = 1
    /\ calls = 0
    /\ envChanges = 0

\* ---------------------------------------------------------------- handlers
\* A request enters a handler on the first idle worker thread: the locals of
\* the call start out unset.
Enter(t, r) ==
    /\ pc[t] = "idle"
    /\ \A u \in Threads : u < t => pc[u] # "idle"
    /\ calls < MaxCalls
    /\ calls' = calls + 1
    /\ req' = [req EXCEPT ![t] = r]

\* GET /info, GET /version: calls get_tokenizer(repo) at once.
info(t) ==
    \E repo \in Overrides :
        /\ Enter(t, [kind |-> "info", repo |-> repo, np |-> 0, nr |-> 0, epoch |-> envChanges])
        /\ pc' = [pc EXCEPT ![t] = "resolve"]
        /\ UNCHANGED <<envVars, constVars, cacheVars, source, local_only, tok, ret,
                       attempts, wrote, out, last, nextId>>
        /\ UNCHANGED <<body, invoked>>

\* The guard of the client error: len(body.prompts) != len(body.responses).
LengthsNeverChecked(np, nr) == FALSE
LengthsMismatch(np, nr) == np # nr

\* The lengths of the arrays of a request: the empty batch and the full one.
BatchLens == {0, MaxBatch}

\* POST /tokenize_bulk: the length check, then get_tokenizer(body.repo).
tokenize_bulk(t) ==
    \E repo \in Overrides, np \in BatchLens, nr \in BatchLens :
        /\ Enter(t, [kind |-> "bulk", repo |-> repo, np |-> np, nr |-> nr, epoch |-> envChanges])
        /\ IF LengthsMismatch(np, nr)
           THEN /\ out' = [out EXCEPT ![t] = HttpError(400, "validate", None, FALSE)]
                /\ pc' = [pc EXCEPT ![t] = "done"]
           ELSE /\ pc' = [pc EXCEPT ![t] = "resolve"]
                /\ UNCHANGED out
        /\ UNCHANGED <<envVars, constVars, cacheVars, source, local_only, tok, ret,
                       attempts, wrote, last, nextId>>
        /\ UNCHANGED <<body, invoked>>

\* ----------------------------------------------------------- get_tokenizer
\* "choose source": source and local_only from the filesystem as it is now.
choose_source(t) ==
    /\ pc[t] = "resolve"
    /\ source' = [source EXCEPT ![t] = Resolve(req[t].repo).source]
    /\ local_only' = [local_only EXCEPT ![t] = Resolve(req[t].repo).local_only]
    /\ pc' = [pc EXCEPT ![t] = "chk_tok"]
    /\ UNCHANGED <<envVars, constVars, cacheVars, req, tok, ret, attempts, wrote, out,
                   last, nextId, calls>>
    /\ UNCHANGED <<body, invoked>>

\* needs_load, first operand: _tokenizer is None.
needs_load_tok(t) ==
    /\ pc[t] = "chk_tok"
    /\ pc' = [pc EXCEPT ![t] = IF _tokenizer = NoTokenizer THEN "load" ELSE "chk_src"]
    /\ UNCHANGED <<envVars, constVars, cacheVars, req, source, local_only, tok, ret,
                   attempts, wrote, out, last, nextId, calls>>
    /\ UNCHANGED <<body, invoked>>

\* needs_load, second operand: _tok_src != source.
needs_load_src_skipped(t) ==
    /\ pc[t] = "chk_src"
    /\ pc' = [pc EXCEPT ![t] = "chk_lo"]
    /\ UNCHANGED <<envVars, constVars, cacheVars, req, source, local_only, tok, ret,
                   attempts, wrote, out, last, nextId, calls>>
    /\ UNCHANGED <<body, invoked>>
needs_load_src(t) ==
    /\ pc[t] = "chk_src"
    /\ pc' = [pc EXCEPT ![t] = IF _tok_src # source[t] THEN "load" ELSE "chk_lo"]
    /\ UNCHANGED <<envVars, constVars, cacheVars, req, source, local_only, tok, ret,
                   attempts, wrote, out, last, nextId, calls>>
    /\ UNCHANGED <<body, invoked>>

\* needs_load, third operand: _tok_local_only != local_only.
needs_load_lo(t) ==
    /\ pc[t] = "chk_lo"
    /\ pc' = [pc EXCEPT ![t] = IF _tok_local_only # local_only[t] THEN "load" ELSE "ret_tok"]
    /\ UNCHANGED <<envVars, constVars, cacheVars, req, source, local_only, tok, ret,
                   attempts, wrote, out, last, nextId, calls>>
    /\ UNCHANGED <<body, invoked>>

\* What a load leaves in the library's cache: a repository fetched from the hub.
CacheAfterLoad(s, lo) == IF LoadUsesNetwork(s, lo) THEN hfCache \cup {s} ELSE hfCache

\* The except branch of the first load: on to the fallback, or
\* HTTPException(500) naming source and cause. No global is assigned.
load_failed_resets_slot(t) ==
    /\ IF FallbackAllowed(source[t], local_only[t], req[t].repo)
       THEN /\ pc' = [pc EXCEPT ![t] = "fallback"]
            /\ UNCHANGED out
       ELSE /\ pc' = [pc EXCEPT ![t] = "done"]
            /\ out' = [out EXCEPT ![t] = HttpError(500, "load", source[t], TRUE)]
    /\ _tokenizer' = NoTokenizer
    /\ UNCHANGED <<_tok_src, _tok_local_only, _tok_md5>>
load_failed(t) ==
    /\ IF FallbackAllowed(source[t], local_only[t], req[t].repo)
       THEN /\ pc' = [pc EXCEPT ![t] = "fallback"]
            /\ UNCHANGED out
       ELSE /\ pc' = [pc EXCEPT ![t] = "done"]
            /\ out' = [out EXCEPT ![t] = HttpError(500, "load", source[t], TRUE)]
    /\ UNCHANGED cacheVars

\* tok = _load_tokenizer(source, local_only), then the except branch if it raises.
load_primary(t) ==
    /\ pc[t] = "load"
    /\ attempts' = [attempts EXCEPT ![t] = Append(@, <<source[t], local_only[t],
                                                       _load_tokenizer_ok(source[t], local_only[t])>>)]
    /\ IF _load_tokenizer_ok(source[t], local_only[t])
       THEN /\ tok' = [tok EXCEPT ![t] = NewTokenizer(source[t], local_only[t])]
            /\ nextId' = nextId + 1
            /\ hfCache' = CacheAfterLoad(source[t], local_only[t])
            /\ pc' = [pc EXCEPT ![t] = "w_tok"]
            /\ UNCHANGED <<out, cacheVars>>
       ELSE /\ load_failed(t)
            /\ UNCHANGED <<tok, nextId, hfCache>>
    /\ UNCHANGED <<environ, fs, net, envChanges, constVars, req, source,
                   local_only, ret, wrote, last, calls>>
    /\ UNCHANGED <<body, invoked>>

\* tok = _load_tokenizer(repo, local_only=False) inside the except branch: on
\* success source and local_only become (repo, False); when it raises, the
\* exception leaves get_tokenizer as it is.
load_fallback(t) ==
    /\ pc[t] = "fallback"
    /\ attempts' = [attempts EXCEPT ![t] = Append(@, <<req[t].repo, FALSE,
                                                       _load_tokenizer_ok(req[t].repo, FALSE)>>)]
    /\ IF _load_tokenizer_ok(req[t].repo, FALSE)
       THEN /\ tok' = [tok EXCEPT ![t] = NewTokenizer(req[t].repo, FALSE)]
            /\ nextId' = nextId + 1
            /\ hfCache' = CacheAfterLoad(req[t].repo, FALSE)
            /\ source' = [source EXCEPT ![t] = req[t].repo]
            /\ local_only' = [local_only EXCEPT ![t] = FALSE]
            /\ pc' = [pc EXCEPT ![t] = "w_tok"]
            /\ UNCHANGED out
       ELSE /\ pc' = [pc EXCEPT ![t] = "done"]
            /\ out' = [out EXCEPT ![t] = Unhandled("fallback")]
            /\ UNCHANGED <<tok, nextId, hfCache, source, local_only>>
    /\ UNCHANGED <<environ, fs, net, envChanges, constVars, cacheVars, req, ret, wrote,
                   last, calls>>
    /\ UNCHANGED <<body, invoked>>

\* _tokenizer = tok
write_tokenizer(t) ==
    /\ pc[t] = "w_tok"
    /\ _tokenizer' = tok[t]
    /\ wrote' = [wrote EXCEPT ![t] = @ \cup {"tok"}]
    /\ pc' = [pc EXCEPT ![t] = "w_src"]
    /\ UNCHANGED <<envVars, constVars, _tok_src, _tok_local_only, _tok_md5, req, source,
                   local_only, tok, ret, attempts, out, last, nextId, calls>>
    /\ UNCHANGED <<body, invoked>>

\* _tok_src = source
write_src(t) ==
    /\ pc[t] = "w_src"
    /\ _tok_src' = source[t]
    /\ wrote' = [wrote EXCEPT ![t] = @ \cup {"src"}]
    /\ pc' = [pc EXCEPT ![t] = "w_lo"]
    /\ UNCHANGED <<envVars, constVars, _tokenizer, _tok_local_only, _tok_md5, req, source,
                   local_only, tok, ret, attempts, out, last, nextId, calls>>
    /\ UNCHANGED <<body, invoked>>

\* _tok_local_only = local_only
write_local_only(t) ==
    /\ pc[t] = "w_lo"
    /\ _tok_local_only' = local_only[t]
    /\ wrote' = [wrote EXCEPT ![t] = @ \cup {"lo"}]
    /\ pc' = [pc EXCEPT ![t] = "w_md5"]
    /\ UNCHANGED <<envVars, constVars, _tokenizer, _tok_src, _tok_md5, req, source,
                   local_only, tok, ret, attempts, out, last, nextId, calls>>
    /\ UNCHANGED <<body, invoked>>

\* _tok_md5 = _backend_md5(tok); an exception of _backend_md5 leaves
\* get_tokenizer as it is, after the three assignments above.
write_md5(t) ==
    /\ pc[t] = "w_md5"
    /\ IF _backend_md5_raises(tok[t])
       THEN /\ pc' = [pc EXCEPT ![t] = "done"]
            /\ out' = [out EXCEPT ![t] = Unhandled("md5")]
            /\ UNCHANGED <<_tok_md5, wrote>>
       ELSE /\ _tok_md5' = _backend_md5(tok[t])
            /\ wrote' = [wrote EXCEPT ![t] = @ \cup {"md5"}]
            /\ pc' = [pc EXCEPT ![t] = "ret_tok"]
            /\ UNCHANGED out
    /\ UNCHANGED <<envVars, constVars, _tokenizer, _tok_src, _tok_local_only, req, source,
                   local_only, tok, ret, attempts, last, nextId, calls>>
    /\ UNCHANGED <<body, invoked>>

\* return _tokenizer, _tok_src, _tok_local_only, _tok_md5: four reads.
return_tokenizer(t) ==
    /\ pc[t] = "ret_tok"
    /\ ret' = [ret EXCEPT ![t].tok = _tokenizer]
    /\ pc' = [pc EXCEPT ![t] = "ret_src"]
    /\ UNCHANGED <<envVars, constVars, cacheVars, req, source, local_only, tok, attempts,
                   wrote, out, last, nextId, calls>>
    /\ UNCHANGED <<body, invoked>>

return_src(t) ==
    /\ pc[t] = "ret_src"
    /\ ret' = [ret EXCEPT ![t].src = _tok_src]
    /\ pc' = [pc EXCEPT ![t] = "ret_lo"]
    /\ UNCHANGED <<envVars, constVars, cacheVars, req, source, local_only, tok, attempts,
                   wrote, out, last, nextId, calls>>
    /\ UNCHANGED <<body, invoked>>

return_local_only(t) ==
    /\ pc[t] = "ret_lo"
    /\ ret' = [ret EXCEPT ![t].lo = _tok_local_only]
    /\ pc' = [pc EXCEPT ![t] = "ret_md5"]
    /\ UNCHANGED <<envVars, constVars, cacheVars, req, source, local_only, tok, attempts,
                   wrote, out, last, nextId, calls>>
    /\ UNCHANGED <<body, invoked>>

return_md5(t) ==
    /\ pc[t] = "ret_md5"
    /\ ret' = [ret EXCEPT ![t].md5 = _tok_md5]
    /\ pc' = [pc EXCEPT ![t] = "returned"]
    /\ UNCHANGED <<envVars, constVars, cacheVars, req, source, local_only, tok, attempts,
                   wrote, out, last, nextId, calls>>
    /\ UNCHANGED <<body, invoked>>

\* ------------------------------------------------- the handlers, continued
\* _file_md5(os.path.join(dir, "tokenizer.json")): the digest of the file's
\* bytes; every exception of open or read is caught and None returned.  The
\* result says whether the call raised and what it returned.
FileBytes(d) == IF fs[d] = "good" THEN "tokenizer.json:qwen" ELSE "tokenizer.json:damaged"
CanRead(d, ioerror) == PathExistsTokJson(d) /\ ~ioerror
_file_md5_unguarded(d, ioerror) ==
    [raised |-> ~CanRead(d, ioerror),
     value |-> IF CanRead(d, ioerror) THEN Md5Hex(FileBytes(d)) ELSE None]
_file_md5(d, ioerror) ==
    [raised |-> FALSE,
     value |-> IF CanRead(d, ioerror) THEN Md5Hex(FileBytes(d)) ELSE None]

\* info builds its answer from the returned tuple; local_tokenizer_json_md5 is
\* _file_md5 of LOCAL_DIR/tokenizer.json if LOCAL_DIR is a directory, else None.
\* Reading a file that is there may still fail (ioerror).
info_respond(t) ==
    /\ pc[t] = "returned"
    /\ req[t].kind = "info"
    /\ \E ioerror \in (IF PathExistsTokJson(LOCAL_DIR) THEN BOOLEAN ELSE {FALSE}) :
        LET digest == IF PathIsDir(LOCAL_DIR) THEN _file_md5(LOCAL_DIR, ioerror)
                      ELSE [raised |-> FALSE, value |-> None]
        IN  IF digest.raised
            THEN /\ out' = [out EXCEPT ![t] = Unhandled("file_md5")]
                 /\ body' = [body EXCEPT ![t] = [NoBody EXCEPT !.ioerror = ioerror]]
            ELSE /\ out' = [out EXCEPT ![t] = OkOut]
                 /\ body' = [body EXCEPT ![t] =
                                [NoBody EXCEPT !.local_tokenizer_json_md5 = digest.value,
                                               !.ioerror = ioerror]]
    /\ pc' = [pc EXCEPT ![t] = "done"]
    /\ UNCHANGED <<envVars, constVars, cacheVars, req, source, local_only, tok, ret,
                   attempts, wrote, last, nextId, calls, invoked>>

\* tok(prompts, responses, ..., return_attention_mask=True, padding=False): one
\* row per (prompt, response) pair, each row as long as its pair encodes
\* (lens[i] tokens), the mask of a row as long as the row.
TokenizerCall(np, lens) ==
    [input_ids |-> [i \in 1..np |-> [k \in 1..lens[i] |-> k]],
     attention_mask |-> [i \in 1..np |-> [k \in 1..lens[i] |-> 1]]]

\* [list(map(int, seq)) for seq in to_py(x)]: a list of lists of int, row by row.
IntRowsFlattened(rows) ==
    << [k \in 1..Len(rows) |-> IF rows[k] = <<>> THEN 0 ELSE rows[k][1]] >>
IntRows(rows) == [i \in 1..Len(rows) |-> [k \in 1..Len(rows[i]) |-> rows[i][k]]]

\* An exception of the invocation becomes HTTPException(500, "tokenization
\* failed: ...").
TokenizationFailureIgnored == OkOut
TokenizationFailed == HttpError(500, "encode", None, TRUE)

\* tokenize_bulk invokes the tokenizer once and converts what it returned.
encode(t) ==
    /\ pc[t] = "returned"
    /\ req[t].kind = "bulk"
    /\ \E raises \in BOOLEAN :
        IF raises
        THEN /\ out' = [out EXCEPT ![t] = TokenizationFailed]
             /\ invoked' = [invoked EXCEPT ![t] = Append(@, "raised")]
             /\ UNCHANGED body
        ELSE \E lens \in [1..req[t].np -> 1..MaxRowLen] :
                LET enc == TokenizerCall(req[t].np, lens)
                IN  /\ out' = [out EXCEPT ![t] = OkOut]
                    /\ invoked' = [invoked EXCEPT ![t] = Append(@, "ok")]
                    /\ body' = [body EXCEPT ![t] =
                                   [NoBody EXCEPT !.input_ids = IntRows(enc.input_ids),
                                                  !.attention_mask = IntRows(enc.attention_mask)]]
    /\ pc' = [pc EXCEPT ![t] = "done"]
    /\ UNCHANGED <<envVars, constVars, cacheVars, req, source, local_only, tok, ret,
                   attempts, wrote, last, nextId, calls>>

\* The response is sent; the thread takes the next request.
respond(t) ==
    /\ pc[t] = "done"
    /\ last' = [repo |-> req[t].repo, epoch |-> req[t].epoch, out |-> out[t],
                ret |-> ret[t], attempts |-> attempts[t]]
    /\ pc' = [pc EXCEPT ![t] = "idle"]
    /\ req' = [req EXCEPT ![t] = NoReq]
    /\ source' = [source EXCEPT ![t] = None]
    /\ local_only' = [local_only EXCEPT ![t] = FALSE]
    /\ tok' = [tok EXCEPT ![t] = NoTokenizer]
    /\ ret' = [ret EXCEPT ![t] = NoRet]
    /\ attempts' = [attempts EXCEPT ![t] = <<>>]
    /\ wrote' = [wrote EXCEPT ![t] = {}]
    /\ out' = [out EXCEPT ![t] = NoOut]
    /\ body' = [body EXCEPT ![t] = NoBody]
    /\ invoked' = [invoked EXCEPT ![t] = <<>>]
    /\ UNCHANGED <<envVars, constVars, cacheVars, nextId, calls>>

\* ------------------------------------------------------------- environment
\* The process environment changes after import (os.environ is mutable).
set_environ ==
    /\ envChanges < MaxEnvChanges
    /\ \E e \in [LOCAL_TOKENIZER_DIR : EnvDirValues, LOCAL_ONLY : EnvLocalOnlyValues] :
        /\ e # environ
        /\ environ' = e
    /\ envChanges' = envChanges + 1
    /\ UNCHANGED <<fs, net, hfCache, constVars, cacheVars, localVars, last, nextId, calls>>

\* A directory changes on disk.
change_fs ==
    /\ envChanges < MaxEnvChanges
    /\ \E d \in Dirs, s \in FsStates :
        /\ fs[d] # s
        /\ fs' = [fs EXCEPT ![d] = s]
    /\ envChanges' = envChanges + 1
    /\ UNCHANGED <<environ, net, hfCache, constVars, cacheVars, localVars, last, nextId, calls>>

\* The hub becomes reachable or unreachable.
change_net ==
    /\ envChanges < MaxEnvChanges
    /\ net' = ~net
    /\ envChanges' = envChanges + 1
    /\ UNCHANGED <<environ, fs, hfCache, constVars, cacheVars, localVars, last, nextId, calls>>

\* ---------------------------------------------------------- specifications
Step(t) ==
    \/ info(t)
    \/ tokenize_bulk(t)
    \/ choose_source(t)
    \/ needs_load_tok(t)
    \/ needs_load_src(t)
    \/ needs_load_lo(t)
    \/ load_primary(t)
    \/ load_fallback(t)
    \/ write_tokenizer(t)
    \/ write_src(t)
    \/ write_local_only(t)
    \/ write_md5(t)
    \/ return_tokenizer(t)
    \/ return_src(t)
    \/ return_local_only(t)
    \/ return_md5(t)
    \/ info_respond(t)
    \/ encode(t)
    \/ respond(t)

Environment == set_environ \/ change_fs \/ change_net

\* Requests served concurrently by the worker threads, in an environment that
\* stays as it was at import.
Next == \E t \in Threads : Step(t)
Spec == Init /\ [][Next]_vars

\* Requests served one after the other, in an environment that changes.
SeqNext == (\E t \in SeqThreads : Step(t)) \/ Environment
SeqSpec == Init /\ [][SeqNext]_vars

\* ------------------------------------------------------------------ claims
\* A thread is inside the miss path: loading, or publishing what it loaded.
InMissPath(t) == pc[t] \in {"load", "fallback", "w_tok", "w_src", "w_lo", "w_md5"}

\* get_tokenizer has handed its tuple to the handler of thread t.
Returned(t) == pc[t] = "returned" \/ (pc[t] = "done" /\ out[t].stage \in {"ok", "encode"})

\* get_tokenizer of thread t has ended, with a tuple or with an exception.
CallEnded(t) == pc[t] \in {"returned", "done"} /\ out[t].stage # "validate"

\* The request of thread t ended because a load failed.
LoadFailed(t) == pc[t] = "done" /\ out[t].stage \in {"load", "fallback"}

\* The environment has not changed since the request of thread t began.
EnvStableDuring(t) == req[t].epoch = envChanges

\* C1: in every reachable state at most one thread is inside the miss path
\* (load, fallback, fingerprint and the four slot assignments).
C1_MissPathSerialized == Cardinality({t \in Threads : InMissPath(t)}) <= 1

\* C2: every tuple a caller obtains from get_tokenizer is consistent: the
\* fingerprint is present and is the backend fingerprint of the tokenizer, and
\* source and local_only are the ones the tokenizer was loaded with.
ConsistentTuple(r) ==
    /\ r.tok # NoTokenizer
    /\ r.md5 # None
    /\ r.tok.fast
    /\ r.md5 = _backend_md5(r.tok)
    /\ r.src = r.tok.src
    /\ r.lo = r.tok.lo
C2_ObservedTupleConsistent == \A t \in Threads : Returned(t) => ConsistentTuple(ret[t])

\* C3: when two consecutive get_tokenizer calls with the same override both
\* return a tuple and the environment did not change from the start of the
\* first to the end of the second, the second makes no load attempt and
\* returns the very tuple the first returned.
C3_Memoized ==
    \A t \in SeqThreads :
        (/\ Returned(t)
         /\ last.ret.tok # NoTokenizer
         /\ last.repo = req[t].repo
         /\ last.epoch = envChanges)
        => (attempts[t] = <<>> /\ ret[t] = last.ret)

\* C4: the step by which a get_tokenizer call fails its load (the first load
\* with no fallback permitted, or the fallback load) changes none of the four
\* cache fields, and that call has assigned none of them before.
C4_FailedLoadLeavesSlot ==
    [][\A t \in Threads :
          (pc[t] \in {"load", "fallback"} /\ pc'[t] \in {"fallback", "done"} /\ pc'[t] # pc[t])
          => (UNCHANGED cacheVars /\ wrote[t] = {} /\ wrote'[t] = {})]_vars
C4_Witness ==
    \E t \in Threads : LoadFailed(t) /\ _tokenizer # NoTokenizer /\ _tok_md5 # None

\* C5: with the local directory not holding a loadable tokenizer.json (absent,
\* or present and failing to load), an override supplied, LOCAL_ONLY off and
\* the override loadable as a fast tokenizer, a get_tokenizer call that has to
\* load returns the override's tokenizer, loaded with local_only = false, and
\* local_only = false.
C5_Precondition(t) ==
    /\ CallEnded(t)
    /\ attempts[t] # <<>>
    /\ EnvStableDuring(t)
    /\ fs[LOCAL_DIR] # "good"
    /\ Truthy(req[t].repo)
    /\ IsFast(req[t].repo)
    /\ ~LOCAL_ONLY
    /\ _load_tokenizer_ok(req[t].repo, FALSE)
C6_LoadFailureIsHttp500 ==
    \A t \in Threads :
        LoadFailed(t)
        => /\ out[t].kind = "HTTPException"
           /\ out[t].status = 500
           /\ out[t].src = attempts[t][Len(attempts[t])][1]
           /\ out[t].cause

\* C7 as stated: after a call with override None that returned a tuple, a call
\* with an explicit repository that differs from the cached source makes
\* exactly one load, which succeeds and replaces the slot, and its fingerprint
\* differs from the previous one exactly when the backend state differs,
\* whether or not the local tokenizer.json is present (the new source being
\* loadable and its fingerprint computable).
C7_Scenario(t) ==
    /\ CallEnded(t)
    /\ EnvStableDuring(t)
    /\ last.ret.tok # NoTokenizer
    /\ last.repo = None
    /\ Truthy(req[t].repo)
    /\ req[t].repo # last.ret.src
C7_OneReload(t) ==
    /\ Returned(t)
    /\ Len(attempts[t]) = 1
    /\ ret[t].tok = tok[t]
    /\ ret[t].tok.id # last.ret.tok.id
    /\ ret[t].src = req[t].repo
    /\ (ret[t].md5 # last.ret.md5) <=> (ret[t].tok.bk # last.ret.tok.bk)
C8_MismatchRejectedFirst ==
    \A t \in Threads :
        (req[t].kind = "bulk" /\ req[t].np # req[t].nr)
        => /\ pc[t] = "done"
           /\ out[t] = HttpError(400, "validate", None, FALSE)
           /\ source[t] = None
           /\ attempts[t] = <<>>
           /\ tok[t] = NoTokenizer
           /\ ret[t] = NoRet
           /\ wrote[t] = {}
C8_Witness ==
    \E t \in Threads :
        /\ req[t].kind = "bulk"
        /\ req[t].np # req[t].nr
        /\ out[t].status = 400
        /\ _tokenizer # NoTokenizer

\* C9: with LOCAL_ONLY set, every load attempt is made with local_only = true,
\* no call makes a fallback attempt, nothing is fetched from the hub, and a
\* tokenizer is only ever obtained from a directory.
C9_ForcedLocalOnly ==
    LOCAL_ONLY =>
        /\ hfCache = {}
        /\ \A t \in Threads :
            /\ pc[t] # "fallback"
            /\ Len(attempts[t]) <= 1
            /\ \A i \in 1..Len(attempts[t]) : attempts[t][i][2] = TRUE
            /\ tok[t] # NoTokenizer => tok[t].src \in Dirs
C9_Witness ==
    /\ LOCAL_ONLY
    /\ net
    /\ \E t \in Threads :
        /\ LoadFailed(t)
        /\ Truthy(req[t].repo)
        /\ attempts[t] = <<(<<req[t].repo, TRUE, FALSE>>)>>

\* C10 as stated: a call resolves (source, local_only) from the values the
\* environment variables have when the call is made.
Resolved(t) == [source |-> source[t], local_only |-> local_only[t]]
C10_AsStated ==
    \A t \in SeqThreads :
        (pc[t] = "chk_tok" /\ EnvStableDuring(t))
        => Resolved(t) = ResolveWith(EnvironDir, EnvironLocalOnly, req[t].repo)

\* C10 as amended: LOCAL_DIR and LOCAL_ONLY keep the values read at import, and
\* a call resolves (source, local_only) from them and the filesystem at the
\* time of the call, whatever the environment variables have become.
C10_ResolvesFromImportValues ==
    /\ LOCAL_DIR = DefaultLocalDir
    /\ \A t \in SeqThreads :
        (pc[t] = "chk_tok" /\ EnvStableDuring(t))
        => Resolved(t) = ResolveWith(LOCAL_DIR, LOCAL_ONLY, req[t].repo)
C10_Witness ==
    \E t \in SeqThreads :
        /\ pc[t] = "chk_tok"
        /\ EnvStableDuring(t)
        /\ Resolved(t) # ResolveWith(EnvironDir, EnvironLocalOnly, req[t].repo)
        /\ Resolved(t) = ResolveWith(LOCAL_DIR, LOCAL_ONLY, req[t].repo)

\* ---------------------------------------------------------------- C11
\* A tokenize_bulk request has ended.
BulkDone(t) == pc[t] = "done" /\ req[t].kind = "bulk"

\* The last load attempt of the request of thread t failed.
LoadingFailed(t) == attempts[t] # <<>> /\ ~attempts[t][Len(attempts[t])][3]

\* The load succeeded and fingerprinting the loaded tokenizer raised.
FingerprintRaised(t) ==
    /\ attempts[t] # <<>>
    /\ attempts[t][Len(attempts[t])][3]
    /\ _backend_md5_raises(tok[t])

\* The tokenizer invocation of the request of thread t raised.
InvocationRaised(t) == invoked[t] # <<>> /\ invoked[t][Len(invoked[t])] = "raised"

\* The parts of C11 that do not depend on what counts as a cause of the 500:
\* one of three statuses, 400 exactly for mismatched lengths, at most one
\* invocation, no load and no invocation after a failure.
C11_Common(t) ==
    /\ Len(invoked[t]) <= 1
    /\ Len(attempts[t]) <= 2
    /\ BulkDone(t) =>
        /\ out[t].status \in {400, 500, 200}
        /\ out[t].status = 400 <=> req[t].np # req[t].nr
        /\ out[t].status = 400 => attempts[t] = <<>> /\ invoked[t] = <<>>
        /\ LoadingFailed(t) => invoked[t] = <<>>

\* C11 as stated: a tokenize_bulk request ends with 400 exactly when the
\* lengths mismatch, with 500 exactly when the lengths match and loading
\* failed or the invocation raised, and with a result otherwise; the tokenizer
\* is invoked at most once and nothing is retried after a failure.
C11_AsStated ==
    \A t \in Threads :
        /\ C11_Common(t)
        /\ BulkDone(t) =>
            /\ out[t].status = 500
                <=> (req[t].np = req[t].nr /\ (LoadingFailed(t) \/ InvocationRaised(t)))
            /\ out[t].status = 200
                <=> (req[t].np = req[t].nr /\ ~LoadingFailed(t) /\ ~InvocationRaised(t))

\* C11 as amended: the 500 has a third cause, the fingerprint of the loaded
\* tokenizer raising; a request whose lengths match ends with 500 exactly
\* when loading failed, the fingerprint raised or the invocation raised, and
\* with a result otherwise; at most one invocation, nothing retried.
C11_ThreeOutcomes ==
    \A t \in Threads :
        /\ C11_Common(t)
        /\ BulkDone(t) =>
            /\ out[t].status = 500
                <=> (req[t].np = req[t].nr
                     /\ (LoadingFailed(t) \/ FingerprintRaised(t) \/ InvocationRaised(t)))
            /\ out[t].status = 200
                <=> (req[t].np = req[t].nr /\ ~LoadingFailed(t) /\ ~FingerprintRaised(t)
                     /\ ~InvocationRaised(t))
            /\ FingerprintRaised(t) => invoked[t] = <<>>
C11_Witness ==
    \E t, u \in Threads :
        /\ BulkDone(t) /\ out[t].status = 500 /\ FingerprintRaised(t)
        /\ BulkDone(u) /\ out[u].status = 500 /\ InvocationRaised(u) /\ Len(invoked[u]) = 1

\* ---------------------------------------------------------------- C12
\* C12: a tokenize_bulk request with len(prompts) = len(responses) that
\* succeeds returns as many input_ids rows and as many attention_mask rows as
\* it had prompts, and each mask row is as long as its input_ids row.
C12_ShapePreserved ==
    \A t \in Threads :
        (BulkDone(t) /\ out[t].status = 200) =>
            /\ req[t].np = req[t].nr
            /\ Len(body[t].input_ids) = req[t].np
            /\ Len(body[t].attention_mask) = req[t].np
            /\ \A i \in 1..req[t].np :
                Len(body[t].input_ids[i]) = Len(body[t].attention_mask[i])
C12_Witness ==
    \E t \in Threads :
        /\ BulkDone(t) /\ out[t].status = 200
        /\ req[t].np = MaxBatch
        /\ Len(body[t].input_ids) = MaxBatch
        /\ \E i, j \in 1..MaxBatch : Len(body[t].input_ids[i]) # Len(body[t].input_ids[j])

\* ---------------------------------------------------------------- C13
\* Two tuples returned by consecutive calls whose tokenizers are fast and
\* have the same serialized backend state.
C13_SameBackend(t) ==
    /\ Returned(t)
    /\ last.ret.tok # NoTokenizer
    /\ ret[t].tok.fast /\ last.ret.tok.fast
    /\ ret[t].tok.bk = last.ret.tok.bk

\* C13: the fingerprints of two tokenizers with the same serialized backend
\* state are equal, also when the two were loaded independently, from
\* different sources, with different local_only flags and into different
\* states of the cache.
C13_FingerprintDeterministic ==
    \A t \in SeqThreads : C13_SameBackend(t) => ret[t].md5 = last.ret.md5
C13_Witness ==
    \E t \in SeqThreads :
        /\ C13_SameBackend(t)
        /\ ret[t].tok.id # last.ret.tok.id
        /\ ret[t].src # last.ret.src
        /\ ret[t].lo # last.ret.lo
        /\ ret[t].md5 = last.ret.md5
        /\ ret[t].md5 = Md5Hex(ret[t].tok.bk)

\* ---------------------------------------------------------------- C14
\* An info request has ended after get_tokenizer handed it a tuple.
InfoAnswered(t) == pc[t] = "done" /\ req[t].kind = "info" /\ ret[t].tok # NoTokenizer

\* C14: _file_md5 never raises, so an info request whose get_tokenizer call
\* returned always ends with 200; local_tokenizer_json_md5 is the digest of
\* the bytes of LOCAL_DIR/tokenizer.json when the file could be read and None
\* for a missing directory, a missing file and a failed read alike.
C14_FileDigestNeverRaises ==
    \A t \in SeqThreads :
        InfoAnswered(t) =>
            /\ out[t].status = 200
            /\ EnvStableDuring(t) =>
                /\ (PathExistsTokJson(LOCAL_DIR) /\ ~body[t].ioerror)
                    => body[t].local_tokenizer_json_md5 = Md5Hex(FileBytes(LOCAL_DIR))
                /\ (~PathExistsTokJson(LOCAL_DIR) \/ body[t].ioerror)
                    => body[t].local_tokenizer_json_md5 = None
C14_Witness ==
    \E t \in SeqThreads :
        /\ InfoAnswered(t)
        /\ EnvStableDuring(t)
        /\ PathIsDir(LOCAL_DIR)
        /\ ~PathExistsTokJson(LOCAL_DIR) \/ body[t].ioerror
        /\ out[t].status = 200
        /\ body[t].local_tokenizer_json_md5 = None

\* ---------------------------------------------------------------- C15
\* Thread t holds the pair it resolved and has not yet loaded anything.
JustResolved(t) == pc[t] \in {"chk_tok", "chk_src", "chk_lo", "load"}

\* C15: whatever the cache holds and whatever other calls are doing, the pair
\* a call resolves is (LOCAL_DIR, true) if LOCAL_DIR/tokenizer.json exists,
\* for every override, and (override if given else DEFAULT_REPO, LOCAL_ONLY)
\* if it does not; so two calls with the same override resolve the same pair.
C15_ResolutionIsAFunction ==
    /\ \A t \in Threads :
        JustResolved(t) =>
            IF PathExistsTokJson(LOCAL_DIR)
            THEN source[t] = LOCAL_DIR /\ local_only[t] = TRUE
            ELSE /\ source[t] = (IF req[t].repo # None THEN req[t].repo ELSE DEFAULT_REPO)
                 /\ local_only[t] = LOCAL_ONLY
    /\ \A t, u \in Threads :
        (JustResolved(t) /\ JustResolved(u) /\ req[t].repo = req[u].repo)
        => Resolved(t) = Resolved(u)
C15_Witness ==
    \E t \in Threads :
        /\ JustResolved(t)
        /\ req[t].repo = RepoOther
        /\ PathExistsTokJson(LOCAL_DIR)
        /\ Resolved(t) = [source |-> LOCAL_DIR, local_only |-> TRUE]
        /\ _tokenizer # NoTokenizer /\ _tok_src = RepoOther /\ _tok_local_only = FALSE

\* ---------------------------------------------------------------- C16
\* The condition under which the claim says a second attempt is made.
SecondAttemptDue(t) ==
    /\ ~attempts[t][1][3]
    /\ attempts[t][1][1] = LOCAL_DIR \/ attempts[t][1][2]
    /\ ~LOCAL_ONLY
    /\ req[t].repo # None

\* Thread t is inside get_tokenizer.
InGetTokenizer(t) ==
    pc[t] \in {"resolve", "chk_tok", "chk_src", "chk_lo", "load", "fallback", "w_tok",
               "w_src", "w_lo", "w_md5", "ret_tok", "ret_src", "ret_lo", "ret_md5"}

\* The steps get_tokenizer has left at most, by position.
StepsLeft(p) ==
    CASE p = "resolve" -> 14 [] p = "chk_tok" -> 13 [] p = "chk_src" -> 12
      [] p = "chk_lo" -> 11 [] p = "load" -> 10 [] p = "fallback" -> 9
      [] p = "w_tok" -> 8 [] p = "w_src" -> 7 [] p = "w_lo" -> 6 [] p = "w_md5" -> 5
      [] p = "ret_tok" -> 4 [] p = "ret_src" -> 3 [] p = "ret_lo" -> 2
      [] p = "ret_md5" -> 1 [] OTHER -> 0

C16_Attempts(t) ==
    /\ Len(attempts[t]) <= 2
    /\ InGetTokenizer(t) => ENABLED Step(t)
    /\ attempts[t] # <<>> =>
        ((pc[t] = "fallback" \/ Len(attempts[t]) = 2) <=> SecondAttemptDue(t))
    /\ Len(attempts[t]) = 2 =>
        /\ attempts[t][2][1] = req[t].repo
        /\ attempts[t][2][2] = FALSE
        /\ attempts[t][2][3] =>
            /\ tok[t].src = req[t].repo /\ tok[t].lo = FALSE
            /\ source[t] = req[t].repo /\ local_only[t] = FALSE

C16_Publishes(t) ==
    /\ (InGetTokenizer(t) /\ pc'[t] # pc[t]) => StepsLeft(pc'[t]) < StepsLeft(pc[t])
    /\ (Len(attempts[t]) = 2 /\ pc[t] = "w_tok" /\ pc'[t] = "w_src")
        => _tokenizer' = tok[t]
    /\ (Len(attempts[t]) = 2 /\ pc[t] = "w_src" /\ pc'[t] = "w_lo")
        => _tok_src' = req[t].repo
    /\ (Len(attempts[t]) = 2 /\ pc[t] = "w_lo" /\ pc'[t] = "w_md5")
        => _tok_local_only' = FALSE

\* C16: a get_tokenizer call makes at most two load attempts and each of its
\* steps brings it nearer to its end; it makes a second attempt exactly when
\* the first failed, the first was on LOCAL_DIR or local-only, LOCAL_ONLY is
\* not set and an override was given; the second attempt is
\* (override, false), and after its success the call publishes the loaded
\* tokenizer under (override, false).
C16_SingleFallbackHop ==
    /\ [](\A t \in Threads : C16_Attempts(t))
    /\ [][\A t \in Threads : C16_Publishes(t)]_vars
C16_Witness ==
    \E t \in Threads :
        /\ Len(attempts[t]) = 2
        /\ SecondAttemptDue(t)
        /\ attempts[t][2] = <<req[t].repo, FALSE, TRUE>>
        /\ pc[t] = "ret_tok"
        /\ _tok_src = req[t].repo /\ _tok_local_only = FALSE /\ _tokenizer = tok[t]

\* ---------------------------------------------------------------- C17
\* The four cache globals as one entry, and the slot as the module leaves it
\* at import.
CacheSlot == [tok |-> _tokenizer, src |-> _tok_src, lo |-> _tok_local_only, md5 |-> _tok_md5]
SlotEmpty ==
    _tokenizer = NoTokenizer /\ _tok_src = None /\ _tok_local_only = FALSE /\ _tok_md5 = None

\* C17: with requests handled one after the other, whenever no call is in
\* the middle of its miss path the slot is either empty or holds four fields
\* that were assigned together by one load: the tokenizer, the source and
\* local_only it was loaded with, and its fingerprint.
C17_SlotReplacedWhole ==
    \A t \in SeqThreads : ~InMissPath(t) => (SlotEmpty \/ ConsistentTuple(CacheSlot))

\* ---------------------------------------------------------------- C19
\* C19: when a call ends because _backend_md5 raised, the call has assigned
\* none of the four cache fields.
C19_FingerprintFailureLeavesSlot ==
    \A t \in SeqThreads : (pc[t] = "done" /\ out[t].stage = "md5") => wrote[t] = {}

\* ---------------------------------------------------------------- C18
\* C18: the tuple a call returns carries the (source, local_only) that call
\* resolved, or (override, false) after its fallback, and a tokenizer that
\* was loaded from that source with that flag, also while other calls run.
C18_ReturnedTupleIsOwn ==
    \A t \in Threads :
        Returned(t) =>
            /\ ret[t].src = source[t]
            /\ ret[t].lo = local_only[t]
            /\ ret[t].tok.src = source[t]
            /\ ret[t].tok.lo = local_only[t]
====
